---- MODULE Spec2Model ----
(***************************************************************************)
(* Key management and envelope encryption of daily-notes: AuthService      *)
(* (registration, dual-path login, logout, password reset, encrypted note  *)
(* load/save) over CryptoService (PBKDF2 key derivation, AES-GCM wrap and  *)
(* unwrap) and localStorage.                                               *)
(*                                                                         *)
(* Cryptography is symbolic: a ciphertext records the key, the iv and the  *)
(* plaintext it was made from, and decrypts only under that key and iv.    *)
(* Strings that the code inspects (passwords, which it trims) are          *)
(* sequences of one-character strings. Random draws of salts, ids and DEKs *)
(* are fresh values taken from counters.                                   *)
(***************************************************************************)
EXTENDS Naturals, Sequences, FiniteSets, TLC

\* ------------------------------------------------------------------ bounds
MaxAccounts == 2
MaxSalts == 3
MaxNotes == 1
NumIvs == 1
MaxTime == 1
\* accounts ever created when the surroundings act too
MaxAccountsEnv == 1
\* calls of the service awaiting a promise at the same time
MaxInFlight == 2

\* ----------------------------------------------------------- input domains
\* Passwords as typed: empty, plain, padded with a blank, and the strings
\* that are (or trim to) the configured master secret.
Passwords ==
  { <<>>, <<"a">>, <<"a", " ">>, <<"m">>, <<"m", " ">> }

\* environment.masterSecret || '': not configured (the empty string) or
\* configured.
MasterSecrets == { <<>>, <<"m">> }

Names == { "alice" }
Times == 1 .. MaxTime
Ivs == 1 .. NumIvs
Ids == 1 .. MaxAccounts

NoteValues ==
  { [id |-> "n1", isImportant |-> TRUE] }
NoteCollections ==
  UNION { [1 .. n -> NoteValues] : n \in 0 .. MaxNotes }

\* currentAccountId = null, dek = null
NullId == 0
NullKey == [alg |-> "null"]

\* ------------------------------------------------------------ String.trim
IsWhiteSpace(c) == c = " "

RECURSIVE trimStart(_)
trimStart(s) ==
  IF s # <<>> /\ IsWhiteSpace(Head(s)) THEN trimStart(Tail(s)) ELSE s

RECURSIVE trimEnd(_)
trimEnd(s) ==
  IF s # <<>> /\ IsWhiteSpace(s[Len(s)])
  THEN trimEnd(SubSeq(s, 1, Len(s) - 1))
  ELSE s

trim(s) == trimEnd(trimStart(s))

\* ---------------------------------------------------------- CryptoService
b64enc(buf) == [b64 |-> buf]
b64dec(s) == s.b64

TextEncode(str) == [utf8 |-> str]
TextDecode(bytes) == bytes.utf8

\* PBKDF2(password, salt) -> AES-GCM key: a function of exactly the
\* password characters and the salt bytes.
deriveKEK(password, saltB64) ==
  [alg |-> "AES-GCM", from |-> "PBKDF2", password |-> password,
   salt |-> b64dec(saltB64)]

\* generateKey: the key whose raw bytes are the random draw n.
generateDEK(n) == [alg |-> "AES-GCM", raw |-> n]
importDEK(rawB64) == [alg |-> "AES-GCM", raw |-> b64dec(rawB64)]
exportDEK(key) == b64enc(key.raw)

\* crypto.subtle.encrypt / decrypt with AES-GCM. Decryption authenticates:
\* it yields the plaintext only under the key and iv of the encryption, and
\* throws otherwise (<<>>: the call threw, <<pt>>: it returned pt).
AesGcmEncrypt(key, iv, pt) == [key |-> key, iv |-> iv, pt |-> pt]
AesGcmDecrypt(key, iv, ct) ==
  IF ct.key = key /\ ct.iv = iv THEN <<ct.pt>> ELSE <<>>

wrapDEK(dekKey, kek, iv) ==
  LET raw == exportDEK(dekKey)
      ct  == AesGcmEncrypt(kek, iv, b64dec(raw))
  IN  [iv |-> b64enc(iv), data |-> b64enc(ct)]

unwrapDEK(wrapped, kek) ==
  LET pt == AesGcmDecrypt(kek, b64dec(wrapped.iv), b64dec(wrapped.data))
  IN  IF pt = <<>> THEN <<>> ELSE <<importDEK(b64enc(pt[1]))>>

\* Variant: the text is stored encoded but not encrypted.
encryptString_Plain(plain, dekKey, iv) ==
  [iv |-> b64enc(iv), data |-> b64enc(TextEncode(plain))]

encryptString(plain, dekKey, iv) ==
  LET ct == AesGcmEncrypt(dekKey, iv, TextEncode(plain))
  IN  [iv |-> b64enc(iv), data |-> b64enc(ct)]

decryptString(enc, dekKey) ==
  LET pt == AesGcmDecrypt(dekKey, b64dec(enc.iv), b64dec(enc.data))
  IN  IF pt = <<>> THEN <<>> ELSE <<TextDecode(pt[1])>>

\* ------------------------------------------------- JSON of a note collection
\* JSON.stringify(notes): the text as a sequence of tokens.
\* Variant: the boolean field is written as false whatever its value.
stringifyNote_LosesFlag(n) == << "{", n.id, "false", "}" >>

stringifyNote(n) ==
  << "{", n.id, IF n.isImportant THEN "true" ELSE "false", "}" >>

RECURSIVE stringifyItems(_)
stringifyItems(notes) ==
  IF notes = <<>> THEN <<>>
  ELSE stringifyNote(Head(notes)) \o stringifyItems(Tail(notes))

stringifyNotes(notes) == <<"[">> \o stringifyItems(notes) \o <<"]">>

RECURSIVE parseItems(_)
parseItems(toks) ==
  IF Len(toks) < 4 THEN <<>>
  ELSE << [id |-> toks[2], isImportant |-> (toks[3] = "true")] >>
         \o parseItems(SubSeq(toks, 5, Len(toks)))

parseNotes(text) == parseItems(SubSeq(text, 2, Len(text) - 1))

\* JSON of the stored objects (registry, master meta, envelopes)
stringifyJSON(v) == [json |-> v]
parseJSON(raw) == raw.json

\* ------------------------------------------------------------------- state
VARIABLES
  MASTER_SECRET,     \* environment.masterSecret || ''
  accounts,          \* signal<AccountMeta[]>
  currentAccountId,  \* signal<string | null>
  dek,               \* CryptoKey | null, in memory only
  localStorage,      \* the three kinds of persisted items
  rng,               \* how many ids, salts and DEKs have been drawn
  pwOf,              \* history: the password each account was last given
  resetInfo,         \* history: what the last reset of each account replaced
  last,              \* the call that completed last, and its outcome
  inflight,          \* calls awaiting a crypto promise, in order of invocation
  appNotes,          \* AppComponent.notes, signal<Note[]>
  pending            \* AppComponent effects scheduled and not yet run

\* what the sequential calls of the service never touch
appVars == << inflight, appNotes, pending >>

vars ==
  << MASTER_SECRET, accounts, currentAccountId, dek, localStorage, rng,
     pwOf, resetInfo, last, inflight, appNotes, pending >>

\* localStorage.getItem gives null (<<>>) or the stored string (<<raw>>).
EmptyStorage ==
  [ diary_accounts_v1 |-> <<>>,
    diary_master_meta_v1 |-> <<>>,
    diary_notes_enc |-> [i \in Ids |-> <<>>] ]

\* Variant: construction writes a new salt whether or not one is stored.
ensureMasterMeta_Always(ls, saltBytes) ==
  [ls EXCEPT !.diary_master_meta_v1 =
                << stringifyJSON([saltB64 |-> b64enc(saltBytes)]) >>]

ensureMasterMeta(ls, saltBytes) ==
  IF ls.diary_master_meta_v1 = <<>>
  THEN [ls EXCEPT !.diary_master_meta_v1 =
                     << stringifyJSON([saltB64 |-> b64enc(saltBytes)]) >>]
  ELSE ls

\* <<>>: throws 'Master meta not initialized'
getMasterMeta(ls) ==
  IF ls.diary_master_meta_v1 = <<>> THEN <<>>
  ELSE << parseJSON(ls.diary_master_meta_v1[1]) >>

loadAccounts(ls) ==
  IF ls.diary_accounts_v1 = <<>> THEN <<>>
  ELSE parseJSON(ls.diary_accounts_v1[1])

setAccounts(ls, list) ==
  [ls EXCEPT !.diary_accounts_v1 = << stringifyJSON(list) >>]

saveNotesBlob(ls, id, dekKey, notes, iv) ==
  LET enc == encryptString(stringifyNotes(notes), dekKey, iv)
  IN  [ls EXCEPT !.diary_notes_enc[id] = << stringifyJSON(enc) >>]

\* accounts().find(a => a.id === id): <<>> when there is none
findAccount(list, id) ==
  LET hits == { i \in 1 .. Len(list) : list[i].id = id }
  IN  IF hits = {} THEN <<>>
      ELSE << list[CHOOSE i \in hits : \A j \in hits : i <= j] >>

\* list.map(a => a.id === id ? updated : a)
replaceAccount(list, id, updated) ==
  [ i \in 1 .. Len(list) |-> IF list[i].id = id THEN updated ELSE list[i] ]

\* A completed call: its name, its arguments (id, pw, notes; for a call
\* without an id, the session's account when it was made), the error it
\* threw ("" when it returned) and what it returned. A successful reset
\* also records the password it replaced and whether a login with it
\* succeeded before the reset (old). prev is the call that completed just
\* before, kept for a loadNotes directly after a saveNotes or a logout and
\* for a login directly after a successful reset of the same account. For
\* a call taken step by step, last is its latest step: pc is the await it
\* stopped at ("" when the call is over), stale whether a logout ran since
\* it was invoked.
NoOld == [pw |-> <<>>, valid |-> FALSE]

\* What a call did with the envelopes: the login path it took ("master",
\* "account" or "" for none), the envelopes it handed to unwrapDEK, those
\* among them that did not open, and the secret it derived the account KEK
\* from (<<>> when it derived none); migration is "done" or "failed" when
\* the login ran its migration step.
Did(path, tried, failed, secret) ==
  [ path |-> path, tried |-> tried, failed |-> failed, secret |-> secret,
    migration |-> "" ]

NoDid == Did("", {}, {}, <<>>)
NoPrev == [op |-> "", notes |-> <<>>, err |-> "", old |-> NoOld]

Outcome(op, id, pw, notes, err, ret) ==
  [ op |-> op, id |-> id, pw |-> pw, notes |-> notes, err |-> err,
    ret |-> ret, old |-> NoOld, prev |-> NoPrev, did |-> NoDid,
    pc |-> "", stale |-> FALSE ]

Prev(call) ==
  [op |-> call.op, notes |-> call.notes, err |-> call.err, old |-> call.old]

NoReset == [done |-> FALSE, dekBefore |-> <<>>]

\* ---------------------------------------------------------- construction
MasterSaltBytes == 0

\* An account written by a version that kept no master wrap.
LegacyMeta(name, accountPassword, t, iv) ==
  [ id |-> 1, name |-> name, createdAt |-> t, saltB64 |-> b64enc(1),
    dekWrappedByAccount |->
      wrapDEK(generateDEK(1), deriveKEK(accountPassword, b64enc(1)), iv),
    dekWrappedByMaster |-> <<>> ]

LegacyStorage(name, accountPassword, t, iv, withBlob) ==
  LET ls == setAccounts(EmptyStorage,
                        << LegacyMeta(name, accountPassword, t, iv) >>)
  IN  IF withBlob THEN saveNotesBlob(ls, 1, generateDEK(1), <<>>, iv) ELSE ls

InitFresh ==
  /\ localStorage = ensureMasterMeta(EmptyStorage, MasterSaltBytes)
  /\ accounts = loadAccounts(EmptyStorage)
  /\ rng = [id |-> 0, salt |-> 0, dek |-> 0]
  /\ pwOf = [i \in Ids |-> <<>>]

InitLegacy ==
  \E name \in Names, p \in Passwords, t \in Times, iv \in Ivs,
     withBlob \in BOOLEAN :
    LET ls == LegacyStorage(name, p, t, iv, withBlob) IN
    /\ localStorage = ensureMasterMeta(ls, MasterSaltBytes)
    /\ accounts = loadAccounts(ls)
    /\ rng = [id |-> 1, salt |-> 1, dek |-> 1]
    /\ pwOf = [i \in Ids |-> IF i = 1 THEN p ELSE <<>>]

Init ==
  /\ MASTER_SECRET \in MasterSecrets
  /\ InitFresh \/ InitLegacy
  /\ currentAccountId = NullId
  /\ dek = NullKey
  /\ resetInfo = [i \in Ids |-> NoReset]
  /\ last = Outcome("constructor", NullId, <<>>, <<>>, "", <<>>)
  /\ inflight = <<>>
  /\ appNotes = <<>>
  /\ pending = {}

\* ------------------------------------------------------ AuthService calls
\* What a call leaves behind: the error it threw ("" when it returned), the
\* session and registry after it, and what it did with the envelopes.
Same ==
  [ err |-> "", dek |-> dek, currentAccountId |-> currentAccountId,
    accounts |-> accounts, localStorage |-> localStorage, did |-> NoDid ]

Throw(msg) == [Same EXCEPT !.err = msg]

\* registerAccount: the AccountMeta it builds
newAccountMeta(id, name, t, saltB64, dekByAcc, dekByMaster) ==
  [ id |-> id, name |-> name, createdAt |-> t, saltB64 |-> saltB64,
    dekWrappedByAccount |-> dekByAcc,
    dekWrappedByMaster |-> << dekByMaster >> ]

\* Variant: the new record goes after the existing ones.
addAccount_Append(meta, list) == list \o << meta >>

\* registerAccount: the list it stores
addAccount(meta, list) == << meta >> \o list

\* Variant: registration opens a session for the new account.
registerSession_LogsIn(id, newDek) ==
  [dek |-> newDek, currentAccountId |-> id]

\* registerAccount assigns neither this.dek nor currentAccountId
registerSession(id, newDek) ==
  [dek |-> dek, currentAccountId |-> currentAccountId]

registerAccount(name, accountPassword) ==
  \E t \in Times, ivAcc \in Ivs, ivMaster \in Ivs, ivNotes \in Ivs :
    LET id       == rng.id + 1
        saltB64  == b64enc(rng.salt + 1)
        newDek   == generateDEK(rng.dek + 1)
        kekAcc   == deriveKEK(accountPassword, saltB64)
        dekByAcc == wrapDEK(newDek, kekAcc, ivAcc)
        mm       == getMasterMeta(localStorage)
    IN
    /\ rng.id < MaxAccounts
    /\ rng.salt < MaxSalts
    /\ rng' = [id |-> rng.id + 1, salt |-> rng.salt + 1, dek |-> rng.dek + 1]
    /\ IF mm = <<>>
       THEN /\ UNCHANGED << accounts, localStorage, pwOf >>
            /\ last' = Outcome("registerAccount", id, accountPassword, <<>>,
                               "Master meta not initialized", <<>>)
       ELSE LET kekMaster   == deriveKEK(MASTER_SECRET, mm[1].saltB64)
                dekByMaster == wrapDEK(newDek, kekMaster, ivMaster)
                meta    == newAccountMeta(id, name, t, saltB64, dekByAcc,
                                          dekByMaster)
                updated == addAccount(meta, accounts)
            IN
            /\ accounts' = updated
            /\ localStorage' =
                 saveNotesBlob(setAccounts(localStorage, updated), id, newDek,
                               <<>>, ivNotes)
            /\ pwOf' = [pwOf EXCEPT ![id] = accountPassword]
            /\ last' = Outcome("registerAccount", id, accountPassword, <<>>,
                               "", <<>>)
    /\ dek' = registerSession(id, newDek).dek
    /\ currentAccountId' = registerSession(id, newDek).currentAccountId
    /\ UNCHANGED appVars
    /\ UNCHANGED << MASTER_SECRET, resetInfo >>

\* Variant: the master KEK is derived with the account's salt.
loginMasterPath_AccountSalt(acc, id) ==
  IF acc.dekWrappedByMaster = <<>>
  THEN Throw("Master access not configured for this account.")
  ELSE LET kekMaster == deriveKEK(MASTER_SECRET, acc.saltB64)
           k == unwrapDEK(acc.dekWrappedByMaster[1], kekMaster)
       IN  IF k = <<>> THEN Throw("OperationError")
           ELSE [Same EXCEPT !.dek = k[1], !.currentAccountId = id]

\* Variant: when the master envelope is missing or does not open, the owner
\* path goes on to the account envelope with the same secret.
loginMasterPath_FallsBack(acc, id) ==
  LET mm == getMasterMeta(localStorage)
      km == IF acc.dekWrappedByMaster = <<>> \/ mm = <<>> THEN <<>>
            ELSE unwrapDEK(acc.dekWrappedByMaster[1],
                           deriveKEK(MASTER_SECRET, mm[1].saltB64))
      ka == unwrapDEK(acc.dekWrappedByAccount,
                      deriveKEK(MASTER_SECRET, acc.saltB64))
      tm == IF acc.dekWrappedByMaster = <<>> \/ mm = <<>> THEN {}
            ELSE {"master"}
  IN  IF km # <<>>
      THEN [ Same EXCEPT !.dek = km[1], !.currentAccountId = id,
                         !.did = Did("master", {"master"}, {}, <<>>) ]
      ELSE IF ka # <<>>
      THEN [ Same EXCEPT !.dek = ka[1], !.currentAccountId = id,
                         !.did = Did("master", tm \cup {"account"}, tm,
                                     << MASTER_SECRET >>) ]
      ELSE [ Throw("Invalid password.")
             EXCEPT !.did = Did("master", tm \cup {"account"},
                                tm \cup {"account"}, << MASTER_SECRET >>) ]

\* loginWithAccount, owner path (lines 102-114)
loginMasterPath(acc, id) ==
  IF acc.dekWrappedByMaster = <<>>
  THEN [ Throw("Master access not configured for this account.")
         EXCEPT !.did = Did("master", {}, {}, <<>>) ]
  ELSE LET mm == getMasterMeta(localStorage) IN
       IF mm = <<>>
       THEN [ Throw("Master meta not initialized")
              EXCEPT !.did = Did("master", {}, {}, <<>>) ]
       ELSE LET kekMaster == deriveKEK(MASTER_SECRET, mm[1].saltB64)
                k == unwrapDEK(acc.dekWrappedByMaster[1], kekMaster)
            IN  IF k = <<>>
                THEN [ Throw("OperationError")
                       EXCEPT !.did = Did("master", {"master"}, {"master"},
                                          <<>>) ]
                ELSE [ Same EXCEPT !.dek = k[1], !.currentAccountId = id,
                                   !.did = Did("master", {"master"}, {},
                                               <<>>) ]

\* Variant: the migration updates the accounts signal but stores nothing.
loginMigrate_NotStored(acc, s, iv) ==
  IF MASTER_SECRET # <<>> /\ acc.dekWrappedByMaster = <<>>
  THEN LET mm == getMasterMeta(localStorage)
           kekMaster == deriveKEK(MASTER_SECRET, mm[1].saltB64)
           updated == [acc EXCEPT !.dekWrappedByMaster =
                                     << wrapDEK(s.dek, kekMaster, iv) >>]
       IN  [s EXCEPT !.accounts = replaceAccount(accounts, acc.id, updated),
                     !.did.migration = "done"]
  ELSE s

\* loginWithAccount, migration (lines 123-135); s is the session just set
loginMigrate(acc, s, iv) ==
  IF MASTER_SECRET # <<>> /\ acc.dekWrappedByMaster = <<>>
  THEN LET mm == getMasterMeta(localStorage) IN
       IF mm = <<>>
       THEN [s EXCEPT !.err = "Invalid password.",
                      !.did.migration = "failed"]
       ELSE LET kekMaster == deriveKEK(MASTER_SECRET, mm[1].saltB64)
                wrappedByMaster == wrapDEK(s.dek, kekMaster, iv)
                updated == [acc EXCEPT !.dekWrappedByMaster =
                                          << wrappedByMaster >>]
                list == replaceAccount(accounts, acc.id, updated)
            IN  [s EXCEPT !.accounts = list,
                          !.localStorage = setAccounts(localStorage, list),
                          !.did.migration = "done"]
  ELSE s

\* loginWithAccount, normal user path (lines 117-140)
loginAccountPath(acc, id, pw, iv) ==
  LET kek == deriveKEK(pw, acc.saltB64)
      k   == unwrapDEK(acc.dekWrappedByAccount, kek)
  IN  IF k = <<>>
      THEN [ Throw("Invalid password.")
             EXCEPT !.did = Did("account", {"account"}, {"account"},
                                << pw >>) ]
      ELSE loginMigrate(acc,
             [ Same EXCEPT !.dek = k[1], !.currentAccountId = id,
                           !.did = Did("account", {"account"}, {},
                                       << pw >>) ], iv)

\* const pw = (password ?? '').trim()
loginSecret(password) == trim(password)

\* Variant: the comparison alone, without the test that a secret is set.
takesMasterPath_EmptyMatches(pw) == pw = MASTER_SECRET

\* if (this.MASTER_SECRET && pw === this.MASTER_SECRET)
takesMasterPath(pw) == MASTER_SECRET # <<>> /\ pw = MASTER_SECRET

loginResult(id, password, iv) ==
  LET found == findAccount(accounts, id) IN
  IF found = <<>> THEN Throw("Account not found")
  ELSE LET acc == found[1]
           pw  == loginSecret(password)
       IN  IF takesMasterPath(pw) THEN loginMasterPath(acc, id)
           ELSE loginAccountPath(acc, id, pw, iv)

loginWithAccount(id, password) ==
  \E iv \in Ivs :
    LET r == loginResult(id, password, iv) IN
    /\ dek' = r.dek
    /\ currentAccountId' = r.currentAccountId
    /\ accounts' = r.accounts
    /\ localStorage' = r.localStorage
    /\ last' =
         [ Outcome("loginWithAccount", id, password, <<>>, r.err, <<>>)
           EXCEPT !.did = r.did,
                  !.prev =
                    IF last.op = "resetAccountPassword" /\ last.err = ""
                       /\ last.id = id
                    THEN Prev(last) ELSE NoPrev ]
    /\ UNCHANGED appVars
    /\ UNCHANGED << MASTER_SECRET, rng, pwOf, resetInfo >>

logout ==
  /\ currentAccountId' = NullId
  /\ dek' = NullKey
  /\ last' = Outcome("logout", NullId, <<>>, <<>>, "", <<>>)
  /\ UNCHANGED appVars
  /\ UNCHANGED << MASTER_SECRET, accounts, localStorage, rng, pwOf, resetInfo >>

\* if (!this.dek || !this.currentAccountId())
noSession == dek = NullKey \/ currentAccountId = NullId

\* Variant: loadNotes throws without a session, as saveNotes does.
loadNotesNoSession_Throws == [err |-> "Not logged in", ret |-> <<>>]

\* loadNotes without a session: return []
loadNotesNoSession == [err |-> "", ret |-> <<>>]

\* loadNotes: [err, ret]
loadNotesResult ==
  IF noSession THEN loadNotesNoSession
  ELSE LET raw == localStorage.diary_notes_enc[currentAccountId] IN
       IF raw = <<>> THEN [err |-> "", ret |-> <<>>]
       ELSE LET blob == parseJSON(raw[1])
                json == decryptString(blob, dek)
            IN  IF json = <<>> THEN [err |-> "OperationError", ret |-> <<>>]
                ELSE [err |-> "", ret |-> parseNotes(json[1])]

loadNotes ==
  LET r == loadNotesResult IN
  /\ last' =
       [ Outcome("loadNotes", currentAccountId, <<>>, <<>>, r.err, r.ret)
         EXCEPT !.prev =
           IF last.op \in {"saveNotes", "logout"}
           THEN Prev(last) ELSE NoPrev ]
  /\ UNCHANGED appVars
  /\ UNCHANGED << MASTER_SECRET, accounts, currentAccountId, dek,
                  localStorage, rng, pwOf, resetInfo >>

saveNotes(notes) ==
  \E iv \in Ivs :
    /\ IF noSession
       THEN /\ UNCHANGED localStorage
            /\ last' = Outcome("saveNotes", currentAccountId, <<>>, notes,
                               "Not logged in", <<>>)
       ELSE /\ localStorage' =
                 saveNotesBlob(localStorage, currentAccountId, dek, notes, iv)
            /\ last' = Outcome("saveNotes", currentAccountId, <<>>, notes,
                               "", <<>>)
    /\ UNCHANGED appVars
    /\ UNCHANGED << MASTER_SECRET, accounts, currentAccountId, dek, rng,
                    pwOf, resetInfo >>

\* Variant: the stored record keeps the old salt and account envelope.
resetUpdatedMeta_KeepsWrap(acc, newSaltB64, dekByNewAcc) == acc

\* Variant: the stored record is built without the master envelope.
resetUpdatedMeta_DropsMaster(acc, newSaltB64, dekByNewAcc) ==
  [acc EXCEPT !.saltB64 = newSaltB64, !.dekWrappedByAccount = dekByNewAcc,
              !.dekWrappedByMaster = <<>>]

\* resetAccountPassword: the record it stores (lines 210-214)
resetUpdatedMeta(acc, newSaltB64, dekByNewAcc) ==
  [acc EXCEPT !.saltB64 = newSaltB64, !.dekWrappedByAccount = dekByNewAcc]

\* Variant: the reset wraps a newly made key instead of the unwrapped DEK.
resetUnwrap_NewKey(acc, mm) == << generateDEK(0) >>

\* resetAccountPassword: the DEK it re-wraps (lines 193-198)
resetUnwrap(acc, mm) ==
  unwrapDEK(acc.dekWrappedByMaster[1],
            deriveKEK(MASTER_SECRET, mm.saltB64))

resetResult(accountId, newAccountPassword, iv) ==
  LET found == findAccount(accounts, accountId) IN
  IF found = <<>> THEN Throw("Account not found")
  ELSE LET acc == found[1] IN
  IF acc.dekWrappedByMaster = <<>>
  THEN Throw("Account not configured for master unwrap")
  ELSE LET mm == getMasterMeta(localStorage) IN
  IF mm = <<>> THEN Throw("Master meta not initialized")
  ELSE LET k == resetUnwrap(acc, mm[1]) IN
  IF k = <<>>
  THEN [ Throw("OperationError")
         EXCEPT !.did = Did("", {"master"}, {"master"}, <<>>) ]
  ELSE LET newSaltB64  == b64enc(rng.salt + 1)
           kekNewAcc   == deriveKEK(newAccountPassword, newSaltB64)
           dekByNewAcc == wrapDEK(k[1], kekNewAcc, iv)
           updatedMeta == resetUpdatedMeta(acc, newSaltB64, dekByNewAcc)
           list        == replaceAccount(accounts, acc.id, updatedMeta)
       IN  [Same EXCEPT !.accounts = list,
                        !.localStorage = setAccounts(localStorage, list),
                        !.did = Did("", {"master"}, {}, <<>>)]

resetAccountPassword(accountId, newAccountPassword) ==
  \E iv \in Ivs :
    LET r   == resetResult(accountId, newAccountPassword, iv)
        acc == findAccount(accounts, accountId)
    IN
    /\ r.err = "" => rng.salt < MaxSalts
    /\ accounts' = r.accounts
    /\ localStorage' = r.localStorage
    /\ dek' = r.dek
    /\ currentAccountId' = r.currentAccountId
    /\ last' =
         [ Outcome("resetAccountPassword", accountId, newAccountPassword,
                   <<>>, r.err, <<>>)
           EXCEPT !.did = r.did,
                  !.old =
             IF r.err = ""
             THEN [ pw |-> pwOf[accountId],
                    valid |->
                      loginResult(accountId, pwOf[accountId], iv).err = "" ]
             ELSE NoOld ]
    /\ IF r.err = ""
       THEN /\ rng' = [rng EXCEPT !.salt = rng.salt + 1]
            /\ pwOf' = [pwOf EXCEPT ![accountId] = newAccountPassword]
            /\ resetInfo' = [resetInfo EXCEPT ![accountId] =
                 [ done |-> TRUE,
                   dekBefore |->
                     unwrapDEK(acc[1].dekWrappedByAccount,
                               deriveKEK(pwOf[accountId], acc[1].saltB64)) ]]
       ELSE UNCHANGED << rng, pwOf, resetInfo >>
    /\ UNCHANGED appVars
    /\ UNCHANGED MASTER_SECRET

Next ==
  \/ \E name \in Names, p \in Passwords : registerAccount(name, p)
  \/ \E id \in Ids, p \in Passwords : loginWithAccount(id, p)
  \/ logout
  \/ loadNotes
  \/ \E notes \in NoteCollections : saveNotes(notes)
  \/ \E id \in Ids, p \in Passwords : resetAccountPassword(id, p)

Spec == Init /\ [][Next]_vars

\* ------------------------------------------------- the service's surroundings
\* The origin's storage is emptied (site data cleared, Storage.clear())
\* while the page stays open: the service keeps its fields.
storageCleared ==
  /\ localStorage' = EmptyStorage
  /\ last' = Outcome("storageCleared", NullId, <<>>, <<>>, "", <<>>)
  /\ UNCHANGED appVars
  /\ UNCHANGED << MASTER_SECRET, accounts, currentAccountId, dek, rng, pwOf,
                  resetInfo >>

\* The page is loaded again, possibly from a build with another
\* environment.masterSecret: the field initialisers and the constructor run
\* on what the store holds.
reload(masterSecret) ==
  LET fresh == localStorage.diary_master_meta_v1 = <<>> IN
  /\ fresh => rng.salt < MaxSalts
  /\ MASTER_SECRET' = masterSecret
  /\ accounts' = loadAccounts(localStorage)
  /\ currentAccountId' = NullId
  /\ dek' = NullKey
  /\ localStorage' = ensureMasterMeta(localStorage, rng.salt + 1)
  /\ rng' = IF fresh THEN [rng EXCEPT !.salt = rng.salt + 1] ELSE rng
  /\ last' = Outcome("constructor", NullId, <<>>, <<>>, "", <<>>)
  /\ UNCHANGED appVars
  /\ UNCHANGED << pwOf, resetInfo >>

NextEnv ==
  \/ \E name \in Names, p \in Passwords :
       rng.id < MaxAccountsEnv /\ registerAccount(name, p)
  \/ \E id \in Ids, p \in Passwords : loginWithAccount(id, p)
  \/ logout
  \/ loadNotes
  \/ \E notes \in NoteCollections : saveNotes(notes)
  \/ \E id \in Ids, p \in Passwords : resetAccountPassword(id, p)
  \/ storageCleared
  \/ \E m \in MasterSecrets : reload(m)

SpecEnv == Init /\ [][NextEnv]_vars

\* ------------------------------------------------- calls taken step by step
\* An async method runs to its first await when it is called and from one
\* await to the next when the awaited crypto promise settles; promises of
\* different calls settle in any order. A record of inflight is a call
\* stopped at an await (pc), with the locals it goes on with.
Remove(seq, i) == SubSeq(seq, 1, i - 1) \o SubSeq(seq, i + 1, Len(seq))

Step(op, id, pw, err, pc, stale, did) ==
  [ Outcome(op, id, pw, <<>>, err, <<>>)
    EXCEPT !.pc = pc, !.stale = stale, !.did = did ]

\* loginWithAccount up to its first await (lines 96-107 and 118)
loginCall(id, password) ==
  LET found == findAccount(accounts, id)
      pw    == loginSecret(password)
      thrown(msg, did) ==
        /\ last' = Step("loginWithAccount", id, password, msg, "", FALSE, did)
        /\ UNCHANGED inflight
      awaits(pc, mm) ==
        /\ inflight' = Append(inflight,
             [ op |-> "loginWithAccount", pc |-> pc, id |-> id,
               pw |-> pw, acc |-> found[1], mm |-> mm, stale |-> FALSE ])
        /\ UNCHANGED last
  IN
  /\ Len(inflight) < MaxInFlight
  /\ IF found = <<>> THEN thrown("Account not found", NoDid)
     ELSE IF takesMasterPath(pw)
     THEN IF found[1].dekWrappedByMaster = <<>>
          THEN thrown("Master access not configured for this account.",
                      Did("master", {}, {}, <<>>))
          ELSE IF getMasterMeta(localStorage) = <<>>
          THEN thrown("Master meta not initialized",
                      Did("master", {}, {}, <<>>))
          ELSE awaits("master", getMasterMeta(localStorage))
     ELSE awaits("account", <<>>)
  /\ UNCHANGED << MASTER_SECRET, accounts, currentAccountId, dek,
                  localStorage, rng, pwOf, resetInfo >>

\* owner path after its awaits (lines 107-113)
loginMasterResume(i) ==
  LET t == inflight[i]
      k == unwrapDEK(t.acc.dekWrappedByMaster[1],
                     deriveKEK(MASTER_SECRET, t.mm[1].saltB64))
  IN
  /\ t.op = "loginWithAccount" /\ t.pc = "master"
  /\ inflight' = Remove(inflight, i)
  /\ IF k = <<>>
     THEN /\ last' = Step("loginWithAccount", t.id, t.pw, "OperationError",
                          "", t.stale,
                          Did("master", {"master"}, {"master"}, <<>>))
          /\ UNCHANGED << dek, currentAccountId >>
     ELSE /\ dek' = k[1]
          /\ currentAccountId' = t.id
          /\ last' = Step("loginWithAccount", t.id, t.pw, "", "", t.stale,
                          Did("master", {"master"}, {}, <<>>))
  /\ UNCHANGED << MASTER_SECRET, accounts, localStorage, rng, pwOf,
                  resetInfo >>

\* normal user path after the unwrap (lines 118-125)
loginAccountResume(i) ==
  LET t  == inflight[i]
      k  == unwrapDEK(t.acc.dekWrappedByAccount,
                      deriveKEK(t.pw, t.acc.saltB64))
      mm == getMasterMeta(localStorage)
      did == Did("account", {"account"}, {}, << t.pw >>)
  IN
  /\ t.op = "loginWithAccount" /\ t.pc = "account"
  /\ IF k = <<>>
     THEN /\ inflight' = Remove(inflight, i)
          /\ last' = Step("loginWithAccount", t.id, t.pw, "Invalid password.",
                          "", t.stale,
                          Did("account", {"account"}, {"account"},
                              << t.pw >>))
          /\ UNCHANGED << dek, currentAccountId >>
     ELSE /\ dek' = k[1]
          /\ currentAccountId' = t.id
          /\ IF MASTER_SECRET # <<>> /\ t.acc.dekWrappedByMaster = <<>>
             THEN IF mm = <<>>
                  THEN /\ inflight' = Remove(inflight, i)
                       /\ last' = Step("loginWithAccount", t.id, t.pw,
                                       "Invalid password.", "", t.stale,
                                       [did EXCEPT !.migration = "failed"])
                  ELSE /\ inflight' =
                            [inflight EXCEPT ![i].pc = "derive", ![i].mm = mm]
                       /\ last' = Step("loginWithAccount", t.id, t.pw, "",
                                       "derive", t.stale, did)
             ELSE /\ inflight' = Remove(inflight, i)
                  /\ last' = Step("loginWithAccount", t.id, t.pw, "", "",
                                  t.stale, did)
  /\ UNCHANGED << MASTER_SECRET, accounts, localStorage, rng, pwOf,
                  resetInfo >>

\* migration once the master KEK is derived: wrapDEK(this.dek!, kekMaster)
\* exports the key this.dek holds now (line 129)
loginDeriveResume(i) ==
  \E iv \in Ivs :
    LET t == inflight[i]
        kekMaster == deriveKEK(MASTER_SECRET, t.mm[1].saltB64)
        did == Did("account", {"account"}, {}, << t.pw >>)
    IN
    /\ t.op = "loginWithAccount" /\ t.pc = "derive"
    /\ IF dek = NullKey
       THEN /\ inflight' = Remove(inflight, i)
            /\ last' = Step("loginWithAccount", t.id, t.pw,
                            "Invalid password.", "", t.stale,
                            [did EXCEPT !.migration = "failed"])
       ELSE /\ inflight' =
                 [ j \in 1 .. Len(inflight) |->
                     IF j = i
                     THEN [ op |-> "loginWithAccount", pc |-> "wrap",
                            id |-> t.id, pw |-> t.pw, acc |-> t.acc,
                            mm |-> t.mm, stale |-> t.stale,
                            wrappedByMaster |-> wrapDEK(dek, kekMaster, iv) ]
                     ELSE inflight[j] ]
            /\ UNCHANGED last
    /\ UNCHANGED << MASTER_SECRET, accounts, currentAccountId, dek,
                    localStorage, rng, pwOf, resetInfo >>

\* migration once the DEK is wrapped (lines 130-136)
loginWrapResume(i) ==
  LET t == inflight[i]
      updated == [t.acc EXCEPT !.dekWrappedByMaster =
                                  << t.wrappedByMaster >>]
      list == replaceAccount(accounts, t.acc.id, updated)
  IN
  /\ t.op = "loginWithAccount" /\ t.pc = "wrap"
  /\ inflight' = Remove(inflight, i)
  /\ accounts' = list
  /\ localStorage' = setAccounts(localStorage, list)
  /\ last' = Step("loginWithAccount", t.id, t.pw, "", "", t.stale,
                  [ Did("account", {"account"}, {}, << t.pw >>)
                    EXCEPT !.migration = "done" ])
  /\ UNCHANGED << MASTER_SECRET, currentAccountId, dek, rng, pwOf,
                  resetInfo >>

\* logout is synchronous; a login still awaiting its unwrap was invoked
\* before it
logoutNow ==
  /\ currentAccountId' = NullId
  /\ dek' = NullKey
  /\ inflight' =
       [ j \in 1 .. Len(inflight) |->
           IF inflight[j].op = "loginWithAccount"
              /\ inflight[j].pc \in {"master", "account"}
           THEN [inflight[j] EXCEPT !.stale = TRUE]
           ELSE inflight[j] ]
  /\ last' = Outcome("logout", NullId, <<>>, <<>>, "", <<>>)
  /\ UNCHANGED << MASTER_SECRET, accounts, localStorage, rng, pwOf,
                  resetInfo >>

\* resetAccountPassword up to its first await (lines 185-194)
resetCall(accountId, newAccountPassword) ==
  LET found == findAccount(accounts, accountId)
      mm    == getMasterMeta(localStorage)
      resets == { j \in 1 .. Len(inflight) :
                    inflight[j].op = "resetAccountPassword" }
      thrown(msg) ==
        /\ last' = Step("resetAccountPassword", accountId,
                        newAccountPassword, msg, "", FALSE, NoDid)
        /\ UNCHANGED inflight
  IN
  /\ Len(inflight) < MaxInFlight
  /\ rng.salt + Cardinality(resets) < MaxSalts
  /\ IF found = <<>> THEN thrown("Account not found")
     ELSE IF found[1].dekWrappedByMaster = <<>>
     THEN thrown("Account not configured for master unwrap")
     ELSE IF mm = <<>> THEN thrown("Master meta not initialized")
     ELSE /\ inflight' = Append(inflight,
               [ op |-> "resetAccountPassword", pc |-> "crypto",
                 id |-> accountId, pw |-> newAccountPassword,
                 acc |-> found[1], mm |-> mm ])
          /\ UNCHANGED last
  /\ UNCHANGED << MASTER_SECRET, accounts, currentAccountId, dek,
                  localStorage, rng, pwOf, resetInfo >>

\* resetAccountPassword after its awaits (lines 198-220)
resetResume(i) ==
  \E iv \in Ivs :
    LET t == inflight[i]
        k == resetUnwrap(t.acc, t.mm[1])
        newSaltB64  == b64enc(rng.salt + 1)
        kekNewAcc   == deriveKEK(t.pw, newSaltB64)
        dekByNewAcc == wrapDEK(k[1], kekNewAcc, iv)
        updatedMeta == resetUpdatedMeta(t.acc, newSaltB64, dekByNewAcc)
        list        == replaceAccount(accounts, t.acc.id, updatedMeta)
    IN
    /\ t.op = "resetAccountPassword"
    /\ inflight' = Remove(inflight, i)
    /\ IF k = <<>>
       THEN /\ last' = Step("resetAccountPassword", t.id, t.pw,
                            "OperationError", "", FALSE,
                            Did("", {"master"}, {"master"}, <<>>))
            /\ UNCHANGED << accounts, localStorage, rng, pwOf >>
       ELSE /\ accounts' = list
            /\ localStorage' = setAccounts(localStorage, list)
            /\ rng' = [rng EXCEPT !.salt = rng.salt + 1]
            /\ pwOf' = [pwOf EXCEPT ![t.id] = t.pw]
            /\ last' = Step("resetAccountPassword", t.id, t.pw, "", "",
                            FALSE, Did("", {"master"}, {}, <<>>))
    /\ resetInfo' = IF k = <<>> THEN resetInfo
                    ELSE [resetInfo EXCEPT ![t.id].done = TRUE]
    /\ UNCHANGED << MASTER_SECRET, currentAccountId, dek >>

\* saveNotes up to the await inside encryptString (lines 159-164): the
\* account, the key and the serialized notes are fixed here
saveCall(items) ==
  /\ Len(inflight) < MaxInFlight
  /\ IF noSession
     THEN /\ last' = Step("saveNotes", currentAccountId, <<>>,
                          "Not logged in", "", FALSE, NoDid)
          /\ UNCHANGED inflight
     ELSE /\ inflight' = Append(inflight,
               [ op |-> "saveNotes", pc |-> "encrypt",
                 id |-> currentAccountId, dek |-> dek, notes |-> items,
                 newer |-> <<>>, cause |-> "" ])
          /\ UNCHANGED last
  /\ UNCHANGED << MASTER_SECRET, accounts, currentAccountId, dek,
                  localStorage, rng, pwOf, resetInfo >>

\* saveNotesBlob once the ciphertext is there (line 165). History: a save
\* of the same account invoked earlier and still in flight notes (newer)
\* the collection of this later save; the step's prev is that later save
\* when there was one.
saveResume(i) ==
  \E iv \in Ivs :
    LET t == inflight[i]
        noted == [ j \in 1 .. Len(inflight) |->
                     IF j < i /\ inflight[j].op = "saveNotes"
                        /\ inflight[j].id = t.id
                     THEN [inflight[j] EXCEPT !.newer = << t.notes >>]
                     ELSE inflight[j] ]
    IN
    /\ t.op = "saveNotes"
    /\ inflight' = Remove(noted, i)
    /\ localStorage' = saveNotesBlob(localStorage, t.id, t.dek, t.notes, iv)
    /\ last' = [ Outcome("saveNotes", t.id, <<>>, t.notes, "", <<>>)
                 EXCEPT !.pc = t.cause,
                        !.prev =
                   IF t.newer # <<>>
                   THEN [NoPrev EXCEPT !.op = "saveNotes",
                                       !.notes = t.newer[1]]
                   ELSE NoPrev ]
    /\ UNCHANGED << MASTER_SECRET, accounts, currentAccountId, dek, rng,
                    pwOf, resetInfo >>

\* The service with its calls interleaved at their awaits, under a
\* configured master secret; a registration is taken as one step. What is
\* typed is an account password or the master secret.
AsyncPasswords == { <<"a">>, <<"m">> }
AsyncNewPasswords == { <<>> }

InitAsync ==
  /\ Init
  /\ MASTER_SECRET # <<>>
  /\ accounts # <<>> => pwOf[1] \in AsyncPasswords

NextAsync ==
  \/ \E name \in Names, p \in AsyncPasswords \ {MASTER_SECRET} :
       inflight = <<>> /\ registerAccount(name, p)
  \/ \E id \in Ids, p \in AsyncPasswords :
       loginCall(id, p) /\ UNCHANGED << appNotes, pending >>
  \/ \E i \in 1 .. Len(inflight) :
       loginMasterResume(i) /\ UNCHANGED << appNotes, pending >>
  \/ \E i \in 1 .. Len(inflight) :
       loginAccountResume(i) /\ UNCHANGED << appNotes, pending >>
  \/ \E i \in 1 .. Len(inflight) :
       loginDeriveResume(i) /\ UNCHANGED << appNotes, pending >>
  \/ \E i \in 1 .. Len(inflight) :
       loginWrapResume(i) /\ UNCHANGED << appNotes, pending >>
  \/ logoutNow /\ UNCHANGED << appNotes, pending >>
  \/ \E id \in Ids, p \in AsyncNewPasswords :
       resetCall(id, p) /\ UNCHANGED << appNotes, pending >>
  \/ \E i \in 1 .. Len(inflight) :
       resetResume(i) /\ UNCHANGED << appNotes, pending >>
  \/ \E items \in NoteCollections :
       saveCall(items) /\ UNCHANGED << appNotes, pending >>
  \/ \E i \in 1 .. Len(inflight) :
       saveResume(i) /\ UNCHANGED << appNotes, pending >>

SpecAsync == InitAsync /\ [][NextAsync]_vars

\* ------------------------------------------------ the component's effects
\* AppComponent holds the notes signal (appNotes) and two effects. pending
\* is the set of effects marked dirty and not yet run; they run before
\* anything else happens. A save started by the second effect carries, as
\* history, what made the effect dirty: "session" (currentAccountId
\* changed), "edit" or "loaded".
MaxInFlightApp == 3

LoadEffect == [effect |-> "load", cause |-> "session"]
SaveEffect(cause) == [effect |-> "save", cause |-> cause]

\* both effects read currentAccountId; set() notifies when the value differs
sessionEffects ==
  IF currentAccountId' # currentAccountId
  THEN { LoadEffect, SaveEffect("session") } ELSE {}

\* the second effect reads notes() only when it ran logged in (line 131)
notesEffects(cause) ==
  IF currentAccountId # NullId THEN { SaveEffect(cause) } ELSE {}

\* the map of lines 121-126; a note of the model has no image list
withImageArrays(loaded) == loaded

\* what loadNotes makes of a stored value and a key (lines 151-155)
loadedNotes(raw, dekKey) ==
  IF raw = <<>> THEN << <<>> >>
  ELSE LET json == decryptString(parseJSON(raw[1]), dekKey)
       IN  IF json = <<>> THEN <<>> ELSE << parseNotes(json[1]) >>

\* login() of the component (lines 178-188): the service call, started;
\* the bound leaves room for the two calls that the effects start
appLogin(id, password) ==
  /\ pending = {}
  /\ Len(inflight) + 2 < MaxInFlightApp
  /\ loginCall(id, password)
  /\ UNCHANGED << appNotes, pending >>

\* a step of a login in flight; the effects are marked when it sets
\* currentAccountId to another value
appLoginStep(i) ==
  /\ pending = {}
  /\ \/ loginMasterResume(i)
     \/ loginAccountResume(i)
     \/ loginDeriveResume(i)
     \/ loginWrapResume(i)
  /\ pending' = sessionEffects
  /\ UNCHANGED appNotes

\* logout() of the component (lines 190-192)
appLogout ==
  /\ pending = {}
  /\ logoutNow
  /\ pending' = sessionEffects
  /\ UNCHANGED appNotes

\* registerAccount() of the component (lines 172-176)
appRegister(name, password) ==
  /\ pending = {}
  /\ inflight = <<>>
  /\ registerAccount(name, password)

\* the user saves or removes a note (lines 339-350): notes.update; a load
\* in flight has then seen an edit (history)
appEdit(items) ==
  /\ pending = {}
  /\ currentAccountId # NullId
  /\ Len(inflight) < MaxInFlightApp
  /\ items # appNotes
  /\ appNotes' = items
  /\ pending' = notesEffects("edit")
  /\ inflight' = [ j \in 1 .. Len(inflight) |->
                     IF inflight[j].op = "loadNotes"
                     THEN [inflight[j] EXCEPT !.edited = TRUE]
                     ELSE inflight[j] ]
  /\ UNCHANGED << MASTER_SECRET, accounts, currentAccountId, dek,
                  localStorage, rng, pwOf, resetInfo, last >>

\* first effect up to its await (lines 113-119): logged out it empties the
\* notes; logged in it calls loadNotes, which reads the stored value and
\* this.dek before it awaits the decryption
loadEffect ==
  /\ LoadEffect \in pending
  /\ pending' = pending \ { LoadEffect }
  /\ IF currentAccountId = NullId
     THEN /\ appNotes' = <<>>
          /\ UNCHANGED inflight
     ELSE /\ inflight' = Append(inflight,
               [ op |-> "loadNotes", pc |-> "decrypt",
                 id |-> currentAccountId, dek |-> dek,
                 raw |-> localStorage.diary_notes_enc[currentAccountId],
                 edited |-> FALSE ])
          /\ UNCHANGED appNotes
  /\ UNCHANGED << MASTER_SECRET, accounts, currentAccountId, dek,
                  localStorage, rng, pwOf, resetInfo, last >>

\* first effect after its await (lines 120-126): notes.set, whoever is
\* logged in by now; a failed decryption rejects and sets nothing
loadResume(i) ==
  LET t == inflight[i]
      loaded == loadedNotes(t.raw, t.dek)
  IN
  /\ pending = {}
  /\ t.op = "loadNotes"
  /\ inflight' = Remove(inflight, i)
  /\ IF loaded = <<>>
     THEN /\ UNCHANGED << appNotes, pending >>
          /\ last' = Step("loadNotes", t.id, <<>>, "OperationError", "",
                          FALSE, NoDid)
     ELSE /\ appNotes' = withImageArrays(loaded[1])
          /\ pending' = notesEffects("loaded")
          /\ last' = Outcome("loadNotes", t.id, <<>>, loaded[1], "", loaded)
  /\ UNCHANGED << MASTER_SECRET, accounts, currentAccountId, dek,
                  localStorage, rng, pwOf, resetInfo >>

\* second effect (lines 129-132): saveNotes(this.notes()), not awaited
saveEffect ==
  \E e \in pending :
    /\ e.effect = "save"
    /\ pending' = pending \ { e }
    /\ IF currentAccountId = NullId
       THEN UNCHANGED inflight
       ELSE inflight' = Append(inflight,
              [ op |-> "saveNotes", pc |-> "encrypt",
                id |-> currentAccountId, dek |-> dek, notes |-> appNotes,
                newer |-> <<>>, cause |-> e.cause ])
    /\ UNCHANGED << MASTER_SECRET, accounts, currentAccountId, dek,
                    localStorage, rng, pwOf, resetInfo, last, appNotes >>

appSaveResume(i) ==
  /\ pending = {}
  /\ saveResume(i)
  /\ UNCHANGED << appNotes, pending >>

\* The component over the service: what the user does, the effects, and
\* the crypto promises settling in any order.
AppPasswords == { <<"a">> }

InitApp ==
  /\ InitAsync
  /\ accounts # <<>> => pwOf[1] \in AppPasswords

NextApp ==
  \/ \E name \in Names, p \in AppPasswords : appRegister(name, p)
  \/ \E id \in Ids, p \in AppPasswords \cup {MASTER_SECRET} :
       appLogin(id, p)
  \/ \E i \in 1 .. Len(inflight) : appLoginStep(i)
  \/ appLogout
  \/ \E items \in NoteCollections : appEdit(items)
  \/ loadEffect
  \/ \E i \in 1 .. Len(inflight) : loadResume(i)
  \/ saveEffect
  \/ \E i \in 1 .. Len(inflight) : appSaveResume(i)

SpecApp == InitApp /\ [][NextApp]_vars

\* ================================================================ claims
\* The DEK inside an account's account envelope, opened with the password
\* the account was last given, and the one inside its master envelope,
\* opened with the master secret and the stored master salt.
AccountDek(acc) ==
  unwrapDEK(acc.dekWrappedByAccount, deriveKEK(pwOf[acc.id], acc.saltB64))

MasterDek(acc) ==
  unwrapDEK(acc.dekWrappedByMaster[1],
            deriveKEK(MASTER_SECRET,
                      getMasterMeta(localStorage)[1].saltB64))

Exists(id) == findAccount(accounts, id) # <<>>
Acc(id) == findAccount(accounts, id)[1]
MasterConfigured == MASTER_SECRET # <<>>

\* The stored note blob of account id opens under key k (or there is none).
OpensBlob(id, k) ==
  LET raw == localStorage.diary_notes_enc[id] IN
  raw # <<>> => decryptString(parseJSON(raw[1]), k) # <<>>

\* C1: every account record, in memory and persisted, that has both
\* envelopes holds one DEK: the account envelope under the KEK of (current
\* account password, saltB64) and the master envelope under the KEK of
\* (master secret, MasterMeta.saltB64) both open, to the same DEK.
C1_BothWrapsSameDek ==
  \A list \in { accounts, loadAccounts(localStorage) } :
    \A i \in 1 .. Len(list) :
      list[i].dekWrappedByMaster # <<>> =>
        /\ AccountDek(list[i]) # <<>>
        /\ AccountDek(list[i]) = MasterDek(list[i])

C1_Witness ==
  /\ last.op = "resetAccountPassword" /\ last.err = ""
  /\ Len(accounts) = 2
  /\ \A i \in 1 .. 2 : accounts[i].dekWrappedByMaster # <<>>
  /\ C1_BothWrapsSameDek

\* C2: what localStorage holds is only: account records of exactly the six
\* public fields, whose salt is salt bytes and whose envelopes are AES-GCM
\* ciphertexts of raw DEK bytes under a PBKDF2-derived KEK; the master meta
\* with its salt; and per account one AES-GCM ciphertext of the serialized
\* notes under a DEK. No key, password or master secret is a stored value.
IsKEK(k) == DOMAIN k = {"alg", "from", "password", "salt"}
IsDEK(k) == DOMAIN k = {"alg", "raw"} /\ k.alg = "AES-GCM"
IsCiphertext(ct) == DOMAIN ct = {"key", "iv", "pt"}
IsEnvelope(env) ==
  /\ DOMAIN env = {"iv", "data"}
  /\ b64dec(env.iv) \in Ivs
  /\ IsCiphertext(b64dec(env.data))
IsWrappedDek(env) ==
  /\ IsEnvelope(env)
  /\ IsKEK(b64dec(env.data).key)
  /\ b64dec(env.data).pt \in 1 .. rng.dek
IsEncryptedNotes(env) ==
  /\ IsEnvelope(env)
  /\ IsDEK(b64dec(env.data).key)
  /\ DOMAIN b64dec(env.data).pt = {"utf8"}
IsStoredAccount(a) ==
  /\ DOMAIN a = { "id", "name", "createdAt", "saltB64",
                  "dekWrappedByAccount", "dekWrappedByMaster" }
  /\ a.id \in Ids /\ a.name \in Names /\ a.createdAt \in Times
  /\ b64dec(a.saltB64) \in 1 .. rng.salt
  /\ IsWrappedDek(a.dekWrappedByAccount)
  /\ \A i \in 1 .. Len(a.dekWrappedByMaster) :
       IsWrappedDek(a.dekWrappedByMaster[i])

C2_NothingSecretPersisted ==
  /\ DOMAIN localStorage =
       {"diary_accounts_v1", "diary_master_meta_v1", "diary_notes_enc"}
  /\ \A i \in 1 .. Len(loadAccounts(localStorage)) :
       IsStoredAccount(loadAccounts(localStorage)[i])
  /\ \A i \in 1 .. Len(localStorage.diary_master_meta_v1) :
       LET mm == parseJSON(localStorage.diary_master_meta_v1[i]) IN
       DOMAIN mm = {"saltB64"} /\ b64dec(mm.saltB64) = MasterSaltBytes
  /\ \A id \in Ids :
       \A i \in 1 .. Len(localStorage.diary_notes_enc[id]) :
         IsEncryptedNotes(parseJSON(localStorage.diary_notes_enc[id][i]))

C2_Witness ==
  /\ last.op = "saveNotes" /\ last.err = "" /\ last.notes # <<>>
  /\ dek # NullKey
  /\ localStorage.diary_notes_enc[currentAccountId] # <<>>
  /\ Len(loadAccounts(localStorage)) = 2

\* C3: a login to an existing account with the password the account was
\* registered with or last reset to succeeds, makes that account the
\* session's, and the session DEK opens the account's stored note blob.
C3_LoginWithCurrentPassword ==
  ( /\ last.op = "loginWithAccount"
    /\ Exists(last.id)
    /\ last.pw = pwOf[last.id] )
  => /\ last.err = ""
     /\ currentAccountId = last.id
     /\ dek # NullKey
     /\ OpensBlob(last.id, dek)

\* C4: a login to an existing account with a secret that is neither the
\* account's current password nor the master secret throws 'Invalid
\* password.' and leaves the session as it was.
C4_LoginWithOtherSecretFails ==
  [][ ( /\ last'.op = "loginWithAccount"
        /\ Exists(last'.id)
        /\ last'.pw # pwOf[last'.id]
        /\ last'.pw # MASTER_SECRET )
      => /\ last'.err = "Invalid password."
         /\ currentAccountId' = currentAccountId
         /\ dek' = dek ]_vars

C6_LoginAfterReset ==
  ( /\ last.op = "loginWithAccount"
    /\ MasterConfigured
    /\ resetInfo[last.id].done
    /\ last.pw \in { pwOf[last.id], MASTER_SECRET } )
  => /\ last.err = ""
     /\ currentAccountId = last.id
     /\ << dek >> = resetInfo[last.id].dekBefore

\* C7 as claimed: a login that directly follows a successful reset of the
\* same account, with the password that was valid before the reset, fails.
C7_OldPasswordFails ==
  ( /\ last.op = "loginWithAccount"
    /\ last.prev.op = "resetAccountPassword"
    /\ last.prev.old.valid
    /\ last.pw = last.prev.old.pw )
  => last.err # ""

\* C7 as amended: it throws 'Invalid password.' when the new password
\* differs from the old one and the old one does not trim to the configured
\* master secret.
C7_OldPasswordFailsUnlessKept ==
  ( /\ last.op = "loginWithAccount"
    /\ last.prev.op = "resetAccountPassword"
    /\ last.prev.old.valid
    /\ last.pw = last.prev.old.pw
    /\ last.pw # pwOf[last.id]
    /\ ~ (MasterConfigured /\ trim(last.pw) = MASTER_SECRET) )
  => last.err = "Invalid password."

C7_Witness ==
  /\ last.op = "loginWithAccount"
  /\ last.prev.op = "resetAccountPassword"
  /\ last.prev.old.valid
  /\ last.pw = last.prev.old.pw
  /\ last.pw # pwOf[last.id]
  /\ ~ (MasterConfigured /\ trim(last.pw) = MASTER_SECRET)
  /\ last.err = "Invalid password."

\* C8: a resetAccountPassword step keeps the length and order of the
\* registry and each record's id, name, createdAt and dekWrappedByMaster,
\* keeps every record but the target's whole, stores exactly that registry,
\* and keeps MasterMeta, every note blob, dek and currentAccountId.
C8_ResetFrame ==
  [][ last'.op = "resetAccountPassword" =>
        /\ Len(accounts') = Len(accounts)
        /\ \A i \in 1 .. Len(accounts) :
             /\ accounts'[i].id = accounts[i].id
             /\ accounts'[i].name = accounts[i].name
             /\ accounts'[i].createdAt = accounts[i].createdAt
             /\ accounts'[i].dekWrappedByMaster =
                  accounts[i].dekWrappedByMaster
             /\ accounts[i].id # last'.id => accounts'[i] = accounts[i]
        /\ loadAccounts(localStorage') = accounts'
        /\ localStorage'.diary_master_meta_v1 =
             localStorage.diary_master_meta_v1
        /\ localStorage'.diary_notes_enc = localStorage.diary_notes_enc
        /\ dek' = dek
        /\ currentAccountId' = currentAccountId ]_vars

C8_Witness ==
  /\ last.op = "resetAccountPassword" /\ last.err = ""
  /\ Len(accounts) = 2
  /\ currentAccountId = last.id
  /\ Acc(last.id).saltB64 = b64enc(rng.salt)
  /\ localStorage.diary_notes_enc[last.id] # <<>>

\* C9: a loadNotes that directly follows a successful saveNotes(X) returns
\* X.
C9_SaveThenLoad ==
  ( /\ last.op = "loadNotes"
    /\ last.prev.op = "saveNotes"
    /\ last.prev.err = "" )
  => /\ last.err = ""
     /\ last.ret = last.prev.notes

C9_Witness ==
  /\ last.op = "loadNotes"
  /\ last.prev.op = "saveNotes" /\ last.prev.err = ""
  /\ last.prev.notes # <<>>
  /\ last.ret = last.prev.notes

C11_MasterPathIffExactMatch ==
  ( /\ last.op = "loginWithAccount"
    /\ last.err # "Account not found" )
  => /\ (last.did.path = "master")
          <=> (MasterConfigured /\ last.pw = MASTER_SECRET)
     /\ last.did.path = "account" => last.did.secret = << last.pw >>

\* C12: with no master secret configured, a resetAccountPassword step on an
\* existing account throws (whatever the message) and leaves the registry,
\* in memory and stored, as it was.
C12_ResetFailsUnconfigured ==
  [][ ( /\ last'.op = "resetAccountPassword"
        /\ ~ MasterConfigured
        /\ Exists(last'.id) )
      => /\ last'.err # ""
         /\ accounts' = accounts
         /\ localStorage'.diary_accounts_v1 = localStorage.diary_accounts_v1
    ]_vars

\* C13: the record a successful registerAccount adds, in memory and stored,
\* has a dekWrappedByMaster envelope only if a master secret is configured.
C13_MasterWrapOnlyIfConfigured ==
  ( /\ last.op = "registerAccount"
    /\ last.err = "" )
  => \A list \in { accounts, loadAccounts(localStorage) } :
       findAccount(list, last.id)[1].dekWrappedByMaster # <<>>
         => MasterConfigured

\* C14: with no master secret configured, no login takes the master path or
\* hands dekWrappedByMaster to unwrapDEK, whatever secret is supplied, the
\* empty string included.
C14_EmptyMasterNeverMatches ==
  ( /\ last.op = "loginWithAccount"
    /\ ~ MasterConfigured )
  => /\ last.did.path # "master"
     /\ "master" \notin last.did.tried

C14_Witness ==
  /\ last.op = "loginWithAccount"
  /\ ~ MasterConfigured
  /\ last.pw = <<>>
  /\ Exists(last.id)
  /\ Acc(last.id).dekWrappedByMaster # <<>>
  /\ pwOf[last.id] # <<>>
  /\ last.did.path = "account"
  /\ last.err = "Invalid password."

\* C15: a login whose account envelope opened returns normally with the
\* session set to the account and its DEK, also when its migration step
\* failed; a failed migration only leaves the record without master wrap.
C15_MigrationFailureKeepsLogin ==
  ( /\ last.op = "loginWithAccount"
    /\ last.did.path = "account"
    /\ "account" \in last.did.tried \ last.did.failed )
  => /\ last.err = ""
     /\ currentAccountId = last.id
     /\ dek # NullKey
     /\ last.did.migration = "failed"
          => Acc(last.id).dekWrappedByMaster = <<>>

\* C16: a login step taken with no session (dek and currentAccountId both
\* null) that throws leaves dek and currentAccountId null.
C16_FailedLoginStaysLoggedOut ==
  [][ ( /\ last'.op = "loginWithAccount"
        /\ dek = NullKey /\ currentAccountId = NullId
        /\ last'.err # "" )
      => /\ dek' = NullKey
         /\ currentAccountId' = NullId ]_vars

\* C17: after a login in which an envelope handed to unwrapDEK did not
\* open, dek and currentAccountId are null.
C17_UnwrapFailureEndsSession ==
  ( /\ last.op = "loginWithAccount"
    /\ last.did.failed # {} )
  => /\ dek = NullKey
     /\ currentAccountId = NullId

\* C18: a registerAccount step leaves dek and currentAccountId as they
\* were, with or without a session.
C18_RegisterKeepsSession ==
  [][ last'.op = "registerAccount" =>
        /\ dek' = dek
        /\ currentAccountId' = currentAccountId ]_vars

C18_Witness ==
  /\ last.op = "registerAccount" /\ last.err = ""
  /\ Exists(last.id)
  /\ currentAccountId # NullId
  /\ currentAccountId # last.id
  /\ dek # NullKey

\* The messages AuthService throws itself.
ServiceErrors ==
  { "Account not found", "Invalid password.", "Not logged in",
    "Master meta not initialized",
    "Master access not configured for this account.",
    "Account not configured for master unwrap" }

\* C19: a loginWithAccount or resetAccountPassword in which an envelope did
\* not open throws one of the service's own errors, and a login throws
\* 'Invalid password.' whichever of the two envelopes it was.
C19_UnwrapFailureReportedAlike ==
  ( /\ last.op \in {"loginWithAccount", "resetAccountPassword"}
    /\ last.did.failed # {} )
  => /\ last.err \in ServiceErrors
     /\ last.op = "loginWithAccount" => last.err = "Invalid password."

OldestFirst(list) ==
  \A i, j \in 1 .. Len(list) : i < j => list[i].id < list[j].id

NewestFirst(list) ==
  \A i, j \in 1 .. Len(list) : i < j => list[i].id > list[j].id

C23_MasterMetaWrittenOnce ==
  [][ ( /\ localStorage.diary_master_meta_v1 # <<>>
        /\ last'.op # "storageCleared" )
      => localStorage'.diary_master_meta_v1 =
           localStorage.diary_master_meta_v1 ]_vars

C23_Witness ==
  /\ last.op = "constructor"
  /\ Len(accounts) = 1
  /\ accounts[1].dekWrappedByMaster # <<>>
  /\ getMasterMeta(localStorage) = << [saltB64 |-> b64enc(MasterSaltBytes)] >>

\* The DEK an envelope holds, whatever KEK it is under; the key and the
\* collection of the stored note blob of an account.
KeyIn(env) == importDEK(b64enc(b64dec(env.data).pt))
BlobOf(id) == parseJSON(localStorage.diary_notes_enc[id][1])
BlobKey(id) == b64dec(BlobOf(id).data).key
BlobNotes(id) == parseNotes(TextDecode(b64dec(BlobOf(id).data).pt))

\* C24: between any two steps, dek is set exactly when currentAccountId is,
\* and then it is the DEK that the envelopes of that account hold.
C24_OneSessionRightKey ==
  /\ (dek = NullKey) <=> (currentAccountId = NullId)
  /\ currentAccountId # NullId =>
       /\ Exists(currentAccountId)
       /\ KeyIn(Acc(currentAccountId).dekWrappedByAccount) = dek
       /\ \A i \in 1 .. Len(Acc(currentAccountId).dekWrappedByMaster) :
            KeyIn(Acc(currentAccountId).dekWrappedByMaster[i]) = dek

\* C25: when a login has stored its migration, the master envelope of the
\* account, in memory and stored, holds the DEK its account envelope holds,
\* whatever other calls ran meanwhile.
C25_MigrationWrapsOwnDek ==
  ( /\ last.op = "loginWithAccount"
    /\ last.did.migration = "done" )
  => \A list \in { accounts, loadAccounts(localStorage) } :
       LET acc == findAccount(list, last.id)[1] IN
       /\ acc.dekWrappedByMaster # <<>>
       /\ KeyIn(acc.dekWrappedByMaster[1]) = KeyIn(acc.dekWrappedByAccount)

\* C26: once an account's password has been reset, its account envelope, in
\* memory and stored, opens under the password of the reset that completed
\* last and under no other password, whatever calls were in flight.
C26_ResetNotUndone ==
  \A list \in { accounts, loadAccounts(localStorage) } :
    \A i \in 1 .. Len(list) :
      resetInfo[list[i].id].done =>
        \A p \in AsyncPasswords \cup AsyncNewPasswords :
          (unwrapDEK(list[i].dekWrappedByAccount,
                     deriveKEK(p, list[i].saltB64)) # <<>>)
            <=> (p = pwOf[list[i].id])

\* C27: a login step of a call invoked before a logout that has run since
\* leaves dek and currentAccountId as they are.
C27_NoSessionFromStaleLogin ==
  [][ (last'.op = "loginWithAccount" /\ last'.stale)
      => /\ dek' = dek
         /\ currentAccountId' = currentAccountId ]_vars

\* C28: the stored note blob of every account is a ciphertext under the DEK
\* that the account's envelope holds.
C28_BlobUnderOwnDek ==
  \A i \in 1 .. Len(accounts) :
    localStorage.diary_notes_enc[accounts[i].id] # <<>> =>
      BlobKey(accounts[i].id) = KeyIn(accounts[i].dekWrappedByAccount)

\* C29: when a saveNotes completes after a saveNotes of the same account
\* that was invoked later, the stored blob still holds the collection of
\* the later invocation.
C29_LastIssuedSaveWins ==
  ( /\ last.op = "saveNotes"
    /\ last.prev.op = "saveNotes" )
  => BlobNotes(last.id) = last.prev.notes

\* C30: with the component's effects, a save that a change of session
\* started writes, while the load of that account is still in flight and
\* the user has edited nothing, the collection that the load read from the
\* store.
C30_LoginKeepsStoredNotes ==
  ( /\ last.op = "saveNotes"
    /\ last.pc = "session" )
  => \A i \in 1 .. Len(inflight) :
       ( /\ inflight[i].op = "loadNotes"
         /\ inflight[i].id = last.id
         /\ ~ inflight[i].edited
         /\ loadedNotes(inflight[i].raw, inflight[i].dek) # <<>> )
       => BlobNotes(last.id) = loadedNotes(inflight[i].raw, inflight[i].dek)[1]

====
